---- MODULE Spec2Model ----
(***************************************************************************)
(* Model of the toilet-paper-generator simulation core:                    *)
(*   - useRollPhysics (src/src/hooks/useRollPhysics.ts, lines 1-196): the  *)
(*     drag / coast state machine of the roll;                             *)
(*   - ClothSimulation (same file, lines 198-615): the Verlet ladder;      *)
(*   - Scene.useFrame (src/unnamed/part_004, lines 607-694): the per-frame *)
(*     row management that drives the ladder.                              *)
(*                                                                         *)
(* Numbers.  The program computes in IEEE doubles; the model computes in   *)
(* fixed point on integer grids and rounds every product and quotient to   *)
(* the nearest grid point (RDiv), as a double operation rounds to the      *)
(* nearest double.  Grids:                                                 *)
(*   U   = 100000 per unit : angles (rad), angular velocity (rad/s),       *)
(*                           roll length (cm), pointer coordinates (px)    *)
(*   RU  = 100 per cm      : roll radius                                   *)
(*   CU  = 1000 per unit   : particle coordinates of the cloth             *)
(*   ms                    : time                                          *)
(***************************************************************************)
EXTENDS Integers, Sequences, FiniteSets, TLC

VARIABLES
    \* ---- useRollPhysics ----
    angularVelocity,   \* stateRef.current.angularVelocity   (U)
    totalRotation,     \* stateRef.current.totalRotation     (U)
    unrolledLength,    \* stateRef.current.unrolledLength    (U)
    isDragging,        \* stateRef.current.isDragging
    lastPointerY,      \* lastPointerY.current: <<>> for null, else <<y>> (U)
    lastTimestamp,     \* lastTimestamp.current: 0 before the first frame
    moves,             \* number of drag samples taken so far
    hitches,           \* number of frames longer than the dt cap so far
    notified,          \* <<state>> handed to onUpdate by the last operation,
                       \* <<>> when it made no onUpdate call
    lengthArg,         \* <<lengthCm>> of the last operation when it was
                       \* setUnrolledLength, else <<>>
    \* ---- ClothSimulation ----
    left,              \* this.left  : sequence of particles, row 0 first
    right,             \* this.right : sequence of particles, row 0 first
    exitLeft,          \* exitLeft argument of the last update
    exitRight,         \* exitRight argument of the last update
    floorY,            \* this.config.floorY (CU)
    stepDt,            \* local dt of the last update after line 297 (ms)
    updates,           \* number of update calls so far
    \* ---- Scene.useFrame ----
    sceneLength,       \* s.unrolledLength of the scene's stateRef (U)
    sceneMaxLengthCm,  \* maxLengthCm prop of the scene (cm)
    frame,             \* locals of the running frame callback
    pc,                \* position of the scene's frame callback
    frames,            \* number of frames started so far
    \* ---- a single call of a helper function ----
    args,              \* the arguments of the call, <<>> when there is none
    result,            \* what the call returned or left behind, <<>> before
    \* ---- printToiletPaper (src/src/app/actions.ts) ----
    socket,            \* the net.Socket of sendToPrinter and what happened
                       \* to it, <<>> before it is created
    promise,           \* the promise of sendToPrinter: "none", "pending",
                       \* "resolved" or "rejected"
    printed,           \* <<>> while printToiletPaper runs, then <<r>> with
                       \* r how it ended (kind "returned" or "threw")
    \* ---- observation ----
    op                 \* the operation that produced the current state

rollVars  == <<angularVelocity, totalRotation, unrolledLength, isDragging,
               lastPointerY, lastTimestamp, moves, hitches, notified,
               lengthArg>>
clothVars == <<left, right, floorY, exitLeft, exitRight, stepDt, updates>>
sceneVars == <<sceneLength, sceneMaxLengthCm, frame, pc, frames>>
callVars  == <<args, result>>
printVars == <<socket, promise, printed>>
vars      == <<rollVars, clothVars, sceneVars, callVars, printVars, op>>

----------------------------------------------------------------------------
(* Arithmetic helpers *)

Abs(a) == IF a < 0 THEN -a ELSE a

Min(a, b) == IF a <= b THEN a ELSE b

Max(a, b) == IF a >= b THEN a ELSE b

\* a / b rounded to the nearest integer (b > 0), as a double operation
\* rounds its exact result to the nearest representable value.
RDiv(a, b) == IF a >= 0 THEN (2 * a + b) \div (2 * b)
                        ELSE -((2 * (-a) + b) \div (2 * b))

\* a first estimate that is at least the square root of n (n < 2^31)
SqrtGuess(n) ==
    IF n < 65536
    THEN (IF n < 256 THEN (IF n < 16 THEN 4 ELSE 16)
                     ELSE (IF n < 4096 THEN 64 ELSE 256))
    ELSE (IF n < 16777216 THEN (IF n < 1048576 THEN 1024 ELSE 4096)
                          ELSE (IF n < 268435456 THEN 16384 ELSE 46340))

\* Newton's descent from x >= sqrt(n) to the integer part of sqrt(n)
RECURSIVE SqrtSearch(_, _)
SqrtSearch(n, x) ==
    IF x = 0 THEN 0
    ELSE LET nx == (x + n \div x) \div 2
         IN  IF nx >= x THEN x ELSE SqrtSearch(n, nx)

\* Math.sqrt on the grid: the integer nearest to the square root of n.
Sqrt(n) ==
    LET r == SqrtSearch(n, Min(n, SqrtGuess(n)))
    IN  IF n - r * r > r THEN r + 1 ELSE r

----------------------------------------------------------------------------
(* Grids and bounds *)

U  == 100000
RU == 100
CU == 1000

\* cfg.maxLengthCm handed to the hook (settings.rollLength), in cm
MaxLengthCm == 2
\* at most this many drag samples in a run
MaxMoves == 1
\* at most this many frames longer than the dt cap in a run
MaxHitches == 1

----------------------------------------------------------------------------
(* useRollPhysics: configuration *)

\* DEFAULT_CONFIG.friction = 0.92 = 23/25
FrictionNum == 23
FrictionDen == 25
\* DEFAULT_CONFIG.sensitivity = 0.008 = 1/125
SensitivityNum == 1
SensitivityDen == 125
\* DEFAULT_CONFIG.coreRadiusCm = 2.0 and outerRadiusCm = 5.5 (RU)
CoreRadius  == 200
OuterRadius == 550
\* the 0.01 rad/s threshold of animate (U)
VelocityEpsilon == 1000
\* Math.min(..., 0.05): the dt cap of animate (ms)
DtCapMs == 50
\* angularVelocity = angularDelta * 60
MomentumScale == 60

maxLengthCm == MaxLengthCm * U

\* resolution of the unrolled fraction inside calculateRadius
FractionScale == 1000

\* the config the components hand to the hook: their maxLengthCm with
\* CORE_RADIUS and OUTER_RADIUS
RollConfig(maxLen) ==
    [maxLengthCm |-> maxLen, coreRadiusCm |-> CoreRadius,
     outerRadiusCm |-> OuterRadius]

\* calculateRadius with the unrolled fraction in place of the remaining one
calculateRadiusOfUnrolled(len, cfg) ==
    LET fraction == RDiv(len * FractionScale, cfg.maxLengthCm)
        outerSq  == cfg.outerRadiusCm * cfg.outerRadiusCm
        coreSq   == cfg.coreRadiusCm * cfg.coreRadiusCm
        curSq    == coreSq + RDiv((outerSq - coreSq) * fraction, FractionScale)
    IN  Sqrt(curSq)

\* calculateRadius(unrolledLength, config): lengths in U, radii in RU.  The
\* factors of Math.PI cancel:
\* radius^2 = core^2 + (outer^2 - core^2) * fraction.
calculateRadiusOf(len, cfg) ==
    LET fraction == FractionScale - RDiv(len * FractionScale, cfg.maxLengthCm)
        outerSq  == cfg.outerRadiusCm * cfg.outerRadiusCm
        coreSq   == cfg.coreRadiusCm * cfg.coreRadiusCm
        curSq    == coreSq + RDiv((outerSq - coreSq) * fraction, FractionScale)
    IN  Sqrt(curSq)

\* calculateRadius under the config of the running hook
calculateRadius(len, maxLen) == calculateRadiusOf(len, RollConfig(maxLen))

\* ClampLength without the upper clamp
ClampLengthNoUpper(v, maxLen) == Max(0, v)

\* Math.max(0, Math.min(maxLengthCm, v))
ClampLength(v, maxLen) == Max(0, Min(maxLen, v))

\* pointer coordinates the browser may report (U): 0, 0.01, 0.03 and 40 px
ClientYs == {0, 1000, 3000, 4000000}

\* timestamp differences between two animation frames (ms)
ElapsedMs == {16, 100}

\* arguments of setUnrolledLength (U): -1 cm, 0.5 cm and 3 cm
SetLengths == {-100000, 50000, 300000}

----------------------------------------------------------------------------
(* useRollPhysics: operations *)

\* { ...state }: the copy of the state handed to onUpdate
Snapshot(v, rot, len, drag) ==
    [angularVelocity |-> v, totalRotation |-> rot, unrolledLength |-> len,
     isDragging |-> drag]

\* one coasting step of animate (lines 99-125) from velocity v, length len
\* and rotation rot with time step dt (ms)
AnimateVelocity1(v) == RDiv(v * FrictionNum, FrictionDen)

AnimateLength(v, len, dt) ==
    LET v1          == AnimateVelocity1(v)
        radius      == calculateRadius(len, maxLengthCm)
        lengthDelta == RDiv(RDiv(v1 * radius, RU) * dt, 1000)
    IN  ClampLength(len + lengthDelta, maxLengthCm)

AnimateVelocity(v, len, dt) ==
    LET v1   == AnimateVelocity1(v)
        len1 == AnimateLength(v, len, dt)
        v2   == IF Abs(v1) < VelocityEpsilon THEN 0 ELSE v1
    IN  IF len1 <= 0 \/ len1 >= maxLengthCm THEN 0 ELSE v2

\* animate applying friction whether or not the roll is being dragged
AnimateWhileDragging(elapsed) ==
    LET timestamp == IF lastTimestamp = 0 THEN 1 ELSE lastTimestamp + elapsed
        last      == IF lastTimestamp = 0 THEN timestamp ELSE lastTimestamp
        dt        == Min(timestamp - last, DtCapMs)
    IN  /\ (timestamp - last > DtCapMs) => hitches < MaxHitches
        /\ hitches' = IF timestamp - last > DtCapMs THEN hitches + 1 ELSE hitches
        /\ lastTimestamp' = 1
        /\ IF Abs(angularVelocity) > VelocityEpsilon
           THEN /\ angularVelocity' =
                       AnimateVelocity(angularVelocity, unrolledLength, dt)
                /\ totalRotation' = totalRotation +
                       RDiv(AnimateVelocity1(angularVelocity) * dt, 1000)
                /\ unrolledLength' =
                       AnimateLength(angularVelocity, unrolledLength, dt)
           ELSE UNCHANGED <<angularVelocity, totalRotation, unrolledLength>>
        /\ UNCHANGED <<isDragging, lastPointerY, moves>>
        /\ notified' = <<Snapshot(angularVelocity', totalRotation',
                                  unrolledLength', isDragging')>>
        /\ lengthArg' = <<>>
        /\ op' = "animate"
        /\ UNCHANGED <<clothVars, sceneVars, callVars, printVars>>

\* animate(timestamp): one animation frame
Animate(elapsed) ==
    LET timestamp == IF lastTimestamp = 0 THEN 1 ELSE lastTimestamp + elapsed
        last      == IF lastTimestamp = 0 THEN timestamp ELSE lastTimestamp
        dt        == Min(timestamp - last, DtCapMs)
    IN  /\ (timestamp - last > DtCapMs) => hitches < MaxHitches
        /\ hitches' = IF timestamp - last > DtCapMs THEN hitches + 1 ELSE hitches
        \* time is re-based after every frame: only differences are used
        /\ lastTimestamp' = 1
        /\ IF ~isDragging /\ Abs(angularVelocity) > VelocityEpsilon
           THEN /\ angularVelocity' =
                       AnimateVelocity(angularVelocity, unrolledLength, dt)
                /\ totalRotation' = totalRotation +
                       RDiv(AnimateVelocity1(angularVelocity) * dt, 1000)
                /\ unrolledLength' =
                       AnimateLength(angularVelocity, unrolledLength, dt)
           ELSE UNCHANGED <<angularVelocity, totalRotation, unrolledLength>>
        /\ UNCHANGED <<isDragging, lastPointerY, moves>>
        /\ notified' = <<Snapshot(angularVelocity', totalRotation',
                                  unrolledLength', isDragging')>>
        /\ lengthArg' = <<>>
        /\ op' = "animate"
        /\ UNCHANGED <<clothVars, sceneVars, callVars, printVars>>

OnPointerDown(clientY) ==
    /\ isDragging' = TRUE
    /\ angularVelocity' = 0
    /\ lastPointerY' = <<clientY>>
    /\ UNCHANGED <<totalRotation, unrolledLength, lastTimestamp, moves, hitches>>
    /\ notified' = <<>>
    /\ lengthArg' = <<>>
    /\ op' = "onPointerDown"
    /\ UNCHANGED <<clothVars, sceneVars, callVars, printVars>>

\* angularDelta = deltaY * config.sensitivity
AngularDelta(deltaY) == RDiv(deltaY * SensitivityNum, SensitivityDen)

\* DragRawLength with the radius of the full roll
DragRawLengthFullRoll(len, deltaY) ==
    LET currentRadius == calculateRadius(0, maxLengthCm)
        lengthDelta   == RDiv(AngularDelta(deltaY) * currentRadius, RU)
    IN  len + lengthDelta

\* unrolledLength + lengthDelta of a drag sample, before the clamp
DragRawLength(len, deltaY) ==
    LET currentRadius == calculateRadius(len, maxLengthCm)
        lengthDelta   == RDiv(AngularDelta(deltaY) * currentRadius, RU)
    IN  len + lengthDelta

OnPointerMove(clientY) ==
    /\ IF ~isDragging \/ lastPointerY = <<>>
       THEN UNCHANGED <<angularVelocity, totalRotation, unrolledLength,
                        lastPointerY, moves>>
       ELSE LET deltaY == clientY - lastPointerY[1]
            IN  /\ moves < MaxMoves
                /\ moves' = moves + 1
                /\ lastPointerY' = <<clientY>>
                /\ angularVelocity' = AngularDelta(deltaY) * MomentumScale
                /\ totalRotation' = totalRotation + AngularDelta(deltaY)
                /\ unrolledLength' =
                       ClampLength(DragRawLength(unrolledLength, deltaY),
                                   maxLengthCm)
    /\ UNCHANGED <<isDragging, lastTimestamp, hitches>>
    /\ notified' = <<>>
    /\ lengthArg' = <<>>
    /\ op' = "onPointerMove"
    /\ UNCHANGED <<clothVars, sceneVars, callVars, printVars>>

\* onPointerUp that also stops the roll
OnPointerUpStops ==
    /\ isDragging' = FALSE
    /\ lastPointerY' = <<>>
    /\ angularVelocity' = 0
    /\ UNCHANGED <<totalRotation, unrolledLength, lastTimestamp, moves, hitches>>
    /\ notified' = <<>>
    /\ lengthArg' = <<>>
    /\ op' = "onPointerUp"
    /\ UNCHANGED <<clothVars, sceneVars, callVars, printVars>>

OnPointerUp ==
    /\ isDragging' = FALSE
    /\ lastPointerY' = <<>>
    /\ UNCHANGED <<angularVelocity, totalRotation, unrolledLength,
                   lastTimestamp, moves, hitches>>
    /\ notified' = <<>>
    /\ lengthArg' = <<>>
    /\ op' = "onPointerUp"
    /\ UNCHANGED <<clothVars, sceneVars, callVars, printVars>>

\* setUnrolledLength without the velocity reset
SetUnrolledLengthKeepVelocity(lengthCm) ==
    /\ unrolledLength' = ClampLength(lengthCm, maxLengthCm)
    /\ UNCHANGED <<angularVelocity, totalRotation, isDragging, lastPointerY,
                   lastTimestamp, moves, hitches>>
    /\ notified' = <<Snapshot(angularVelocity', totalRotation',
                              unrolledLength', isDragging')>>
    /\ lengthArg' = <<lengthCm>>
    /\ op' = "setUnrolledLength"
    /\ UNCHANGED <<clothVars, sceneVars, callVars, printVars>>

SetUnrolledLength(lengthCm) ==
    /\ unrolledLength' = ClampLength(lengthCm, maxLengthCm)
    /\ angularVelocity' = 0
    /\ UNCHANGED <<totalRotation, isDragging, lastPointerY, lastTimestamp,
                   moves, hitches>>
    /\ notified' = <<Snapshot(angularVelocity', totalRotation',
                              unrolledLength', isDragging')>>
    /\ lengthArg' = <<lengthCm>>
    /\ op' = "setUnrolledLength"
    /\ UNCHANGED <<clothVars, sceneVars, callVars, printVars>>

----------------------------------------------------------------------------
(* ClothSimulation: configuration (ClothConfig) *)

\* config.maxActiveRows the model instantiates the simulation with
MaxActiveRows == 3
\* config.subSteps the model instantiates the simulation with
SubSteps == 2
\* config.constraintIterations the model instantiates the simulation with
ConstraintIterations == 2
\* at most this many update calls in a run
MaxUpdates == 2

\* CLOTH_SEGMENT_LENGTH = 1.0 (CU)
SegmentLength == 1000
\* ROLL_WIDTH = 4.0 (CU)
PaperWidth == 4000
\* FLOOR_Y = -3.5 (CU)
FloorY == -3500
\* CLOTH_GRAVITY = -400
Gravity == -400
\* CLOTH_DAMPING = 0.92 = 23/25
DampingNum == 23
DampingDen == 25
\* CLOTH_BENDING_STIFFNESS = 0.4 = 2/5
BendingNum == 2
BendingDen == 5
\* CLOTH_FLOOR_FRICTION = 0.7 = 7/10
FloorFrictionNum == 7
FloorFrictionDen == 10
\* dt = Math.min(dt, 1 / 20): the cap of update (ms)
MaxDtMs == 50
\* the 1e-6 distance threshold, rounded up to the CU grid: a distance on
\* the grid is below 1e-6 exactly when it is below one grid step
DistEpsilon == 1
\* applySpinPull: pullStrength = 120, threshold 0.5 rad/s (spin in 1/10 rad/s)
PullStrength == 120
SpinU == 10
SpinThreshold == 5

Vec3(x, y, z) == [x |-> x, y |-> y, z |-> z]

Pos(p) == Vec3(p.x, p.y, p.z)

Prev(p) == Vec3(p.px, p.py, p.pz)

rowCount == Len(left)

----------------------------------------------------------------------------
(* ClothSimulation: helpers (lines 505-614) *)

makeParticle(pos) ==
    [x |-> pos.x, y |-> pos.y, z |-> pos.z,
     px |-> pos.x, py |-> pos.y, pz |-> pos.z]

\* a number that is not finite (NaN): one value outside every range the
\* finite numbers of the model lie in; it takes part in no integer
\* arithmetic, the operators below give the result a double operation has
NaN == 1000000000

isFinite(v) == v # NaN

\* a + b, a - b and a * num / den of doubles
NAdd(a, b) == IF isFinite(a) /\ isFinite(b) THEN a + b ELSE NaN

NSub(a, b) == IF isFinite(a) /\ isFinite(b) THEN a - b ELSE NaN

NScale(a, num, den) == IF isFinite(a) THEN RDiv(a * num, den) ELSE NaN

\* all three coordinates of the current position are finite
FinitePos(p) == isFinite(p.x) /\ isFinite(p.y) /\ isFinite(p.z)

\* p after p.x -= c, p.y -= c, p.z -= c with c not a number
NaNPos(p) == [p EXCEPT !.x = NaN, !.y = NaN, !.z = NaN]

\* integrateParticle without the test for a position that is not finite
integrateParticleNoReturn(p, gravDt2) ==
    LET vx == NScale(NSub(p.x, p.px), DampingNum, DampingDen)
        vy == NScale(NSub(p.y, p.py), DampingNum, DampingDen)
        vz == NScale(NSub(p.z, p.pz), DampingNum, DampingDen)
    IN  [x |-> NAdd(p.x, vx), y |-> NAdd(NAdd(p.y, vy), gravDt2),
         z |-> NAdd(p.z, vz), px |-> p.x, py |-> p.y, pz |-> p.z]

integrateParticle(p, gravDt2) ==
    IF ~isFinite(p.x) \/ ~isFinite(p.y) \/ ~isFinite(p.z)
    THEN [p EXCEPT !.x = p.px, !.y = p.py, !.z = p.pz]
    ELSE LET vx == NScale(NSub(p.x, p.px), DampingNum, DampingDen)
             vy == NScale(NSub(p.y, p.py), DampingNum, DampingDen)
             vz == NScale(NSub(p.z, p.pz), DampingNum, DampingDen)
         IN  [x |-> NAdd(p.x, vx), y |-> NAdd(NAdd(p.y, vy), gravDt2),
              z |-> NAdd(p.z, vz), px |-> p.x, py |-> p.y, pz |-> p.z]

\* the distance of two particles, as solveDistanceConstraint computes it
Dist(a, b) ==
    IF ~FinitePos(a) \/ ~FinitePos(b) THEN NaN
    ELSE LET dx == b.x - a.x
             dy == b.y - a.y
             dz == b.z - a.z
         IN  Sqrt(dx * dx + dy * dy + dz * dz)

\* solveDistanceConstraint moving b by half of the correction when a is pinned
solveDistanceConstraintHalfPinned(a, b, restLength, pinA) ==
    LET dx   == b.x - a.x
        dy   == b.y - a.y
        dz   == b.z - a.z
        dist == Dist(a, b)
    IN  IF ~isFinite(dist)
        \* NaN < 1e-6 is false and the correction is NaN on every axis
        THEN <<IF pinA THEN a ELSE NaNPos(a), NaNPos(b)>>
        ELSE IF dist < DistEpsilon THEN <<a, b>>
        ELSE LET \* c = d * correction * 0.5
                 cx == RDiv(dx * (dist - restLength), 2 * dist)
                 cy == RDiv(dy * (dist - restLength), 2 * dist)
                 cz == RDiv(dz * (dist - restLength), 2 * dist)
             IN  IF pinA
                 THEN <<a, [b EXCEPT !.x = b.x - cx,
                                     !.y = b.y - cy,
                                     !.z = b.z - cz]>>
                 ELSE <<[a EXCEPT !.x = a.x + cx,
                                  !.y = a.y + cy,
                                  !.z = a.z + cz],
                        [b EXCEPT !.x = b.x - cx,
                                  !.y = b.y - cy,
                                  !.z = b.z - cz]>>

\* solveDistanceConstraint(a, b, restLength, pinA): the pair <<a, b>> after
solveDistanceConstraint(a, b, restLength, pinA) ==
    LET dx   == b.x - a.x
        dy   == b.y - a.y
        dz   == b.z - a.z
        dist == Dist(a, b)
    IN  IF ~isFinite(dist)
        \* NaN < 1e-6 is false and the correction is NaN on every axis
        THEN <<IF pinA THEN a ELSE NaNPos(a), NaNPos(b)>>
        ELSE IF dist < DistEpsilon THEN <<a, b>>
        ELSE LET \* c = d * correction * 0.5
                 cx == RDiv(dx * (dist - restLength), 2 * dist)
                 cy == RDiv(dy * (dist - restLength), 2 * dist)
                 cz == RDiv(dz * (dist - restLength), 2 * dist)
             IN  IF pinA
                 THEN <<a, [b EXCEPT !.x = b.x - cx * 2,
                                     !.y = b.y - cy * 2,
                                     !.z = b.z - cz * 2]>>
                 ELSE <<[a EXCEPT !.x = a.x + cx,
                                  !.y = a.y + cy,
                                  !.z = a.z + cz],
                        [b EXCEPT !.x = b.x - cx,
                                  !.y = b.y - cy,
                                  !.z = b.z - cz]>>

\* the loop of solveChainDistances from (1-based) index i on
RECURSIVE ChainDistancesFrom(_, _, _)
ChainDistancesFrom(chain, i, restLength) ==
    IF i > Len(chain) - 1 THEN chain
    ELSE LET r == solveDistanceConstraint(chain[i], chain[i + 1],
                                          restLength, i = 1)
         IN  ChainDistancesFrom([chain EXCEPT ![i] = r[1], ![i + 1] = r[2]],
                                i + 1, restLength)

solveChainDistances(chain, restLength) ==
    ChainDistancesFrom(chain, 1, restLength)

\* the body of the loop of solveChainBending for (1-based) index i, past
\* the distance test (lines 584-601)
BendPair(chain, i, restLength) ==
    LET a    == chain[i]
        c    == chain[i + 2]
        dx   == c.x - a.x
        dy   == c.y - a.y
        dz   == c.z - a.z
        dist == Dist(a, c)
    IN  IF ~isFinite(dist)
        \* the correction is NaN on every axis
        THEN IF i = 1
             THEN [chain EXCEPT ![i + 2] = NaNPos(c)]
             ELSE [chain EXCEPT ![i] = NaNPos(a), ![i + 2] = NaNPos(c)]
        ELSE LET \* c = d * ((dist - rest) / dist) * stiffness * 0.5
                 cx == RDiv(dx * (dist - restLength) * BendingNum,
                            2 * dist * BendingDen)
                 cy == RDiv(dy * (dist - restLength) * BendingNum,
                            2 * dist * BendingDen)
                 cz == RDiv(dz * (dist - restLength) * BendingNum,
                            2 * dist * BendingDen)
             IN  IF i = 1
                 THEN [chain EXCEPT
                         ![i + 2] = [c EXCEPT !.x = c.x - cx * 2,
                                              !.y = c.y - cy * 2,
                                              !.z = c.z - cz * 2]]
                 ELSE [chain EXCEPT
                         ![i] = [a EXCEPT !.x = a.x + cx,
                                          !.y = a.y + cy,
                                          !.z = a.z + cz],
                         ![i + 2] = [c EXCEPT !.x = c.x - cx,
                                              !.y = c.y - cy,
                                              !.z = c.z - cz]]

\* the loop of solveChainBending from (1-based) index i on; a pair closer
\* than the epsilon ends the whole loop (return, line 582)
RECURSIVE ChainBendingFrom(_, _, _)
ChainBendingFrom(chain, i, restLength) ==
    IF i > Len(chain) - 2 THEN chain
    ELSE LET dist == Dist(chain[i], chain[i + 2])
         IN  IF isFinite(dist) /\ dist < DistEpsilon THEN chain
             ELSE ChainBendingFrom(BendPair(chain, i, restLength),
                                   i + 1, restLength)

solveChainBending(chain, restLength) == ChainBendingFrom(chain, 1, restLength)

clampToFloor(p, fy) ==
    IF isFinite(p.y) /\ p.y < fy
    THEN LET vx == NSub(p.x, p.px)
             vz == NSub(p.z, p.pz)
         IN  [p EXCEPT !.y = fy, !.py = fy,
                       !.px = NSub(p.x, NScale(vx, FloorFrictionNum,
                                               FloorFrictionDen)),
                       !.pz = NSub(p.z, NScale(vz, FloorFrictionNum,
                                               FloorFrictionDen))]
    ELSE p

----------------------------------------------------------------------------
(* ClothSimulation: private passes; a cloth c is [left |-> .., right |-> ..] *)

Cloth(l, r) == [left |-> l, right |-> r]

pinFirstRow(c, eL, eR) ==
    IF Len(c.left) = 0 THEN c
    ELSE Cloth([c.left EXCEPT ![1] = makeParticle(eL)],
               [c.right EXCEPT ![1] = makeParticle(eR)])

\* the loop of integrate from (1-based) index i on
RECURSIVE IntegrateFrom(_, _, _)
IntegrateFrom(c, i, gravDt2) ==
    IF i > Len(c.left) THEN c
    ELSE IntegrateFrom(
             Cloth([c.left EXCEPT ![i] = integrateParticle(c.left[i], gravDt2)],
                   [c.right EXCEPT ![i] = integrateParticle(c.right[i], gravDt2)]),
             i + 1, gravDt2)

\* rows 1 .. length-1 (0-based) of both chains are integrated
integrate(c, gravDt2) == IntegrateFrom(c, 2, gravDt2)

\* accel of (0-based) row i of n rows: maxAccel * t * dt * dt, in CU
SpinAccel(i, n, dtMs, spinRate) ==
    RDiv(PullStrength * Abs(spinRate) * (n - i) * dtMs * dtMs,
         SpinU * (n - 1) * 1000 * SubSteps * SubSteps)

\* the loop of applySpinPull from (1-based) index i on
RECURSIVE SpinPullFrom(_, _, _, _)
SpinPullFrom(c, i, dtMs, spinRate) ==
    IF i > Len(c.left) THEN c
    ELSE LET accel == SpinAccel(i - 1, Len(c.left), dtMs, spinRate)
         IN  SpinPullFrom(
                 Cloth([c.left EXCEPT ![i].y = NSub(@, accel)],
                       [c.right EXCEPT ![i].y = NSub(@, accel)]),
                 i + 1, dtMs, spinRate)

applySpinPull(c, dtMs, spinRate) ==
    IF Abs(spinRate) < SpinThreshold THEN c
    ELSE SpinPullFrom(c, 2, dtMs, spinRate)

solveStructural(c) ==
    Cloth(solveChainDistances(c.left, SegmentLength),
          solveChainDistances(c.right, SegmentLength))

\* the loop of solveRungs from (1-based) index i on; row 0 has pinA = true
RECURSIVE RungsFrom(_, _)
RungsFrom(c, i) ==
    IF i > Len(c.left) THEN c
    ELSE LET r == solveDistanceConstraint(c.left[i], c.right[i],
                                          PaperWidth, i = 1)
         IN  RungsFrom(Cloth([c.left EXCEPT ![i] = r[1]],
                             [c.right EXCEPT ![i] = r[2]]), i + 1)

solveRungs(c) == RungsFrom(c, 1)

solveBending(c) ==
    IF BendingNum <= 0 THEN c
    ELSE Cloth(solveChainBending(c.left, SegmentLength * 2),
               solveChainBending(c.right, SegmentLength * 2))

\* the loop of solveFloor from (1-based) index i on
RECURSIVE FloorFrom(_, _)
FloorFrom(c, i) ==
    IF i > Len(c.left) THEN c
    ELSE FloorFrom(Cloth([c.left EXCEPT ![i] = clampToFloor(c.left[i], floorY)],
                         [c.right EXCEPT ![i] = clampToFloor(c.right[i], floorY)]),
                   i + 1)

\* solveFloor starting its loop one row late
solveFloorFromRow2(c) == FloorFrom(c, 3)

\* rows 1 .. length-1 (0-based) of both chains are clamped
solveFloor(c) == FloorFrom(c, 2)

RECURSIVE ConstraintLoop(_, _)
ConstraintLoop(c, iter) ==
    IF iter >= ConstraintIterations THEN c
    ELSE ConstraintLoop(solveFloor(solveBending(solveRungs(solveStructural(c)))),
                        iter + 1)

\* one sub-step of update (lines 302-314)
SubStep(c, dtMs, eL, eR, spinRate) ==
    LET gravDt2 == RDiv(Gravity * dtMs * dtMs, 1000 * SubSteps * SubSteps)
        pinned  == pinFirstRow(c, eL, eR)
        moved   == integrate(pinned, gravDt2)
        pulled  == applySpinPull(moved, dtMs, spinRate)
    IN  solveFloor(ConstraintLoop(pulled, 0))

\* the loop of update over the sub-steps (line 302); a strip without rows
\* stays without rows (line 295), whatever the number of sub-steps
RECURSIVE SubStepLoop(_, _, _, _, _, _)
SubStepLoop(c, s, dtMs, eL, eR, spinRate) ==
    IF s >= SubSteps \/ Len(c.left) = 0 THEN c
    ELSE SubStepLoop(SubStep(c, dtMs, eL, eR, spinRate), s + 1,
                     dtMs, eL, eR, spinRate)

\* the dt that update integrates over the whole call (line 297), in ms
ClampDt(dtMs) == Min(dtMs, MaxDtMs)

\* update(dt, exitLeft, exitRight, spinRate): the cloth after the call
update(c, dtMs, eL, eR, spinRate) ==
    IF Len(c.left) = 0 THEN c
    ELSE SubStepLoop(c, 0, ClampDt(dtMs), eL, eR, spinRate)

\* spawnRow with the capacity test off by one
spawnRowPastCap(c, eL, eR) ==
    IF Len(c.left) > MaxActiveRows THEN c
    ELSE Cloth(<<makeParticle(eL)>> \o c.left,
               <<makeParticle(eR)>> \o c.right)

\* spawnRow without its capacity test
spawnRowNoCap(c, eL, eR) ==
    IF Len(c.left) = 0
    THEN Cloth(Append(c.left, makeParticle(eL)),
               Append(c.right, makeParticle(eR)))
    ELSE Cloth(<<makeParticle(eL)>> \o c.left,
               <<makeParticle(eR)>> \o c.right)

\* spawnRow pushing the new row at the tip instead of index 0
spawnRowAtTip(c, eL, eR) ==
    IF Len(c.left) >= MaxActiveRows THEN c
    ELSE Cloth(Append(c.left, makeParticle(eL)),
               Append(c.right, makeParticle(eR)))

spawnRow(c, eL, eR) ==
    IF Len(c.left) >= MaxActiveRows THEN c
    ELSE IF Len(c.left) = 0
         THEN Cloth(Append(c.left, makeParticle(eL)),
                    Append(c.right, makeParticle(eR)))
         ELSE Cloth(<<makeParticle(eL)>> \o c.left,
                    <<makeParticle(eR)>> \o c.right)

\* despawnRow shifting this.left only
despawnRowLeftOnly(c) ==
    IF Len(c.left) <= 1 THEN c
    ELSE Cloth(Tail(c.left), c.right)

despawnRow(c) ==
    IF Len(c.left) <= 1 THEN c
    ELSE Cloth(Tail(c.left), Tail(c.right))

\* reset clearing this.left only
resetLeftOnly(c) == Cloth(<<>>, c.right)

reset(c) == Cloth(<<>>, <<>>)

----------------------------------------------------------------------------
(* ClothSimulation: the render buffers (lines 343-397) *)

\* an exponent e with |v| < 2^24 * 2^e, searched upwards from 2^e = ulp
RECURSIVE Float32From(_, _)
Float32From(v, ulp) ==
    IF Abs(v) < 16777216 * ulp THEN ulp * RDiv(v, ulp)
    ELSE Float32From(v, 2 * ulp)

\* a number stored into a Float32Array: it keeps 24 significant bits, and a
\* NaN stays a NaN
Float32(v) == IF isFinite(v) THEN Float32From(v, 1) ELSE NaN

\* a number stored into a Uint16Array
Uint16(v) == v % 65536

\* getPositions(): per row, left x y z then right x y z
getPositions(c) ==
    [k \in 1..(Len(c.left) * 2 * 3) |->
        LET i == (k - 1) \div 6
            l == c.left[i + 1]
            r == c.right[i + 1]
            o == (k - 1) % 6
        IN  Float32(CASE o = 0 -> l.x [] o = 1 -> l.y [] o = 2 -> l.z
                      [] o = 3 -> r.x [] o = 4 -> r.y [] o = 5 -> r.z)]

\* v of (0-based) row i, on the CU grid: (i * segmentLength) / paperWidth
RowV(i) == RDiv(i * SegmentLength * CU, PaperWidth)

\* getUVs(): per row, the four floats written at lines 375-378, on the CU
\* grid (u = 1 is CU)
getUVs(c) ==
    [k \in 1..(Len(c.left) * 2 * 2) |->
        LET i == (k - 1) \div 4
            o == (k - 1) % 4
        IN  Float32(CASE o = 0 -> 1 * CU [] o = 1 -> RowV(i)
                      [] o = 2 -> 0      [] o = 3 -> RowV(i))]

\* getIndices with its loop running one row too far
getIndicesPastEnd(c) ==
    LET n == Len(c.left)
    IN  IF n < 2 THEN <<>>
        ELSE [k \in 1..(6 * n) |->
                 LET i  == (k - 1) \div 6
                     o  == (k - 1) % 6
                     tl == i * 2
                     tr == i * 2 + 1
                     bl == (i + 1) * 2
                     br == (i + 1) * 2 + 1
                 IN  Uint16(CASE o = 0 -> tl [] o = 1 -> tr [] o = 2 -> bl
                              [] o = 3 -> tr [] o = 4 -> br [] o = 5 -> bl)]

\* getIndices(): two triangles per pair of consecutive rows
getIndices(c) ==
    LET n == Len(c.left)
    IN  IF n < 2 THEN <<>>
        ELSE [k \in 1..(6 * (n - 1)) |->
                 LET i  == (k - 1) \div 6
                     o  == (k - 1) % 6
                     tl == i * 2
                     tr == i * 2 + 1
                     bl == (i + 1) * 2
                     br == (i + 1) * 2 + 1
                 IN  Uint16(CASE o = 0 -> tl [] o = 1 -> tr [] o = 2 -> bl
                              [] o = 3 -> tr [] o = 4 -> br [] o = 5 -> bl)]

\* vertex k (0-based) of the buffers: its position and its texture
\* coordinates, as a renderer reads them (3 floats and 2 floats per vertex)
VertexPos(positions, k) ==
    Vec3(positions[3 * k + 1], positions[3 * k + 2], positions[3 * k + 3])

VertexU(uvs, k) == uvs[2 * k + 1]

VertexV(uvs, k) == uvs[2 * k + 2]

\* MAX_VERTS and MAX_INDICES of the pre-allocated geometry (part_004)
MaxVerts == MaxActiveRows * 2

MaxIndices == (MaxActiveRows - 1) * 6

\* ClothPaperMesh.useFrame draws the strip only when it has two rows
Visible(c) == Len(c.left) >= 2

----------------------------------------------------------------------------
(* ClothSimulation: the public operations as actions *)

\* anchor pairs (CU): the roll's exit line at
\* paper width, a wider pair close to the floor, and a pair below the floor
AnchorStd  == <<Vec3(-2000, 0, 0), Vec3(2000, 0, 0)>>
AnchorWide == <<Vec3(-2000, -3000, 0), Vec3(3000, -3000, 0)>>
AnchorLow  == <<Vec3(-2000, -5000, 0), Vec3(2000, -5000, 0)>>

\* anchor pairs handed to spawnRow; a row on the other pairs arises when
\* update has pinned row 0 there and a spawnRow then pushes it down
SpawnAnchors == {AnchorStd}

\* arguments <<dt (ms), anchors, spinRate (1/10 rad/s)>> handed to update:
\* an ordinary frame, a frame hitch while the roll spins, a negative dt,
\* and a zero dt
UpdateInputs ==
    { <<16, AnchorStd, 0>>,
      <<100, AnchorWide, 20>>,
      <<-100, AnchorStd, 20>>,
      <<0, AnchorLow, 0>> }

Update(dtMs, anchor, spinRate) ==
    LET c == update(Cloth(left, right), dtMs, anchor[1], anchor[2], spinRate)
    IN  /\ updates < MaxUpdates
        /\ updates' = updates + 1
        /\ left' = c.left
        /\ right' = c.right
        /\ exitLeft' = anchor[1]
        /\ exitRight' = anchor[2]
        /\ stepDt' = IF Len(left) = 0 THEN stepDt ELSE ClampDt(dtMs)
        /\ op' = "update"
        /\ UNCHANGED <<floorY, rollVars, sceneVars, callVars, printVars>>

SpawnRow(anchor) ==
    LET c == spawnRow(Cloth(left, right), anchor[1], anchor[2])
    IN  /\ left' = c.left
        /\ right' = c.right
        /\ op' = "spawnRow"
        /\ UNCHANGED <<floorY, exitLeft, exitRight, stepDt, updates,
                       rollVars, sceneVars, callVars, printVars>>

\* despawnRow removing the last row (pop) instead of row 0 (shift)
DespawnRowPop ==
    LET c == IF Len(left) <= 1 THEN Cloth(left, right)
             ELSE Cloth(SubSeq(left, 1, Len(left) - 1),
                        SubSeq(right, 1, Len(right) - 1))
    IN  /\ left' = c.left
        /\ right' = c.right
        /\ op' = "despawnRow"
        /\ UNCHANGED <<floorY, exitLeft, exitRight, stepDt, updates,
                       rollVars, sceneVars, callVars, printVars>>

DespawnRow ==
    LET c == despawnRow(Cloth(left, right))
    IN  /\ left' = c.left
        /\ right' = c.right
        /\ op' = "despawnRow"
        /\ UNCHANGED <<floorY, exitLeft, exitRight, stepDt, updates,
                       rollVars, sceneVars, callVars, printVars>>

Reset ==
    LET c == reset(Cloth(left, right))
    IN  /\ left' = c.left
        /\ right' = c.right
        /\ op' = "reset"
        /\ UNCHANGED <<floorY, exitLeft, exitRight, stepDt, updates,
                       rollVars, sceneVars, callVars, printVars>>

----------------------------------------------------------------------------
(* Scene.useFrame (src/unnamed/part_004): the per-frame loop *)

\* at most this many frames in a run
MaxFrames == 2

\* FLOOR_SURFACE_Y = -3.5 + 0.08 (CU)
FloorSurfaceY == -3420
\* ROLL_Y = 13 (CU)
RollY == 13000
\* the 0.5 threshold of the spawn loop and of the reset (U)
SceneThreshold == 50000
\* Math.min(rawDelta, 0.05) (ms)
SceneDeltaCapMs == 50

\* maxLengthCm props the page may hand to the scene (settings.rollLength)
SceneMaxLengths == {MaxLengthCm, MaxLengthCm + 2}

\* angular velocities of the roll body (1/10 rad/s) and frame deltas (ms)
SceneSpinRates == {-100, 0, 20, 100}
SceneRawDeltas == {16, 100}

\* externalLength values typed into the length field (U)
ExternalLengths == {0, SceneThreshold, 250000}

\* calculateRadius(unrolledLength, maxLengthCm) of part_004: radius in RU
sceneCalculateRadius(len, maxLen) ==
    LET fraction == FractionScale - RDiv(len * FractionScale, maxLen)
        outerSq  == OuterRadius * OuterRadius
        coreSq   == CoreRadius * CoreRadius
        curSq    == coreSq + RDiv((outerSq - coreSq) * fraction, FractionScale)
    IN  Sqrt(curSq)

\* targetRows = Math.max(1, Math.floor(s.unrolledLength / 1.0) + 1)
TargetRows(len) == Max(1, (len \div U) + 1)

IdleFrame == [targetRows |-> 0, spinRate |-> 0, delta |-> 0,
              exitLeft |-> Vec3(0, 0, 0), exitRight |-> Vec3(0, 0, 0)]

\* lines 608-663: rotation tracking, length integration, exit point and
\* targetRows; the roll body hangs unrotated, so the exit point is straight
\* below the axis
SceneFrameBegin(spinRate, rawDelta) ==
    LET delta         == Min(rawDelta, SceneDeltaCapMs)
        maxLen        == sceneMaxLengthCm * U
        currentRadius == sceneCalculateRadius(sceneLength, maxLen)
        lengthDelta   == RDiv(spinRate * currentRadius * delta, 10)
        len           == ClampLength(sceneLength + lengthDelta, maxLen)
        exitY         == RollY - currentRadius * (CU \div RU)
    IN  /\ pc = "idle"
        /\ frames < MaxFrames
        /\ frames' = frames + 1
        /\ sceneLength' = len
        /\ frame' = [targetRows |-> TargetRows(len),
                     spinRate   |-> spinRate,
                     delta      |-> delta,
                     exitLeft   |-> Vec3(-(PaperWidth \div 2), exitY, 0),
                     exitRight  |-> Vec3(PaperWidth \div 2, exitY, 0)]
        /\ pc' = "spawn"
        /\ op' = "frameBegin"
        /\ UNCHANGED <<sceneMaxLengthCm, clothVars, rollVars, callVars, printVars>>

\* one evaluation of the spawn loop (lines 666-671): its test and, when the
\* test holds, its body
SceneSpawnStep ==
    /\ pc = "spawn"
    /\ IF rowCount < frame.targetRows /\ sceneLength > SceneThreshold
       THEN LET c == spawnRow(Cloth(left, right), frame.exitLeft, frame.exitRight)
            IN  /\ left' = c.left
                /\ right' = c.right
                /\ pc' = "spawn"
       ELSE /\ pc' = "despawn"
            /\ UNCHANGED <<left, right>>
    /\ op' = "spawnLoop"
    /\ UNCHANGED <<floorY, exitLeft, exitRight, stepDt, updates,
                   sceneLength, sceneMaxLengthCm, frame, frames, rollVars, callVars, printVars>>

\* one evaluation of the despawn loop (lines 674-676)
SceneDespawnStep ==
    /\ pc = "despawn"
    /\ IF rowCount > frame.targetRows /\ rowCount > 1
       THEN LET c == despawnRow(Cloth(left, right))
            IN  /\ left' = c.left
                /\ right' = c.right
                /\ pc' = "despawn"
       ELSE /\ pc' = "reset"
            /\ UNCHANGED <<left, right>>
    /\ op' = "despawnLoop"
    /\ UNCHANGED <<floorY, exitLeft, exitRight, stepDt, updates,
                   sceneLength, sceneMaxLengthCm, frame, frames, rollVars, callVars, printVars>>

\* lines 679-681: reset when fully rolled back
SceneResetStep ==
    /\ pc = "reset"
    /\ IF sceneLength < SceneThreshold
       THEN LET c == reset(Cloth(left, right))
            IN  /\ left' = c.left
                /\ right' = c.right
       ELSE UNCHANGED <<left, right>>
    /\ pc' = "step"
    /\ op' = "rowsManaged"
    /\ UNCHANGED <<floorY, exitLeft, exitRight, stepDt, updates,
                   sceneLength, sceneMaxLengthCm, frame, frames, rollVars, callVars, printVars>>

\* lines 684-693: step the cloth and end the frame
SceneUpdateStep ==
    /\ pc = "step"
    /\ IF rowCount > 0
       THEN LET c == update(Cloth(left, right), frame.delta,
                            frame.exitLeft, frame.exitRight, frame.spinRate)
            IN  /\ left' = c.left
                /\ right' = c.right
                /\ exitLeft' = frame.exitLeft
                /\ exitRight' = frame.exitRight
                /\ stepDt' = ClampDt(frame.delta)
       ELSE UNCHANGED <<left, right, exitLeft, exitRight, stepDt>>
    /\ pc' = "idle"
    /\ frame' = IdleFrame
    /\ op' = "frameEnd"
    /\ UNCHANGED <<floorY, updates, sceneLength, sceneMaxLengthCm, frames,
                   rollVars, callVars, printVars>>

\* the externalLength effect of ToiletRoll (part_004, lines 800-813); it
\* runs between two frames
SceneSetExternalLength(externalLength) ==
    /\ pc = "idle"
    /\ sceneLength' = ClampLength(externalLength, sceneMaxLengthCm * U)
    /\ op' = "externalLength"
    /\ UNCHANGED <<sceneMaxLengthCm, frame, pc, frames, clothVars, rollVars, callVars, printVars>>

----------------------------------------------------------------------------
(* Specifications *)

\* the refs of the hook, the scene and the call variables before any
\* operation, with a strip of chains l and r
StateInit(maxLen, fy, l, r, a) ==
    /\ angularVelocity = 0
    /\ totalRotation = 0
    /\ unrolledLength = 0
    /\ isDragging = FALSE
    /\ lastPointerY = <<>>
    /\ lastTimestamp = 0
    /\ moves = 0
    /\ hitches = 0
    /\ notified = <<>>
    /\ lengthArg = <<>>
    /\ left = l
    /\ right = r
    /\ floorY = fy
    /\ exitLeft = Vec3(0, 0, 0)
    /\ exitRight = Vec3(0, 0, 0)
    /\ stepDt = 0
    /\ updates = 0
    /\ sceneLength = 0
    /\ sceneMaxLengthCm = maxLen
    /\ frame = IdleFrame
    /\ pc = "idle"
    /\ frames = 0
    /\ args = a
    /\ result = <<>>
    /\ socket = <<>>
    /\ promise = "none"
    /\ printed = <<>>
    /\ op = "init"

InitWith(maxLen, fy) == StateInit(maxLen, fy, <<>>, <<>>, <<>>)

\* the hook after its first render and a ClothSimulation built with the
\* default floor
Init == InitWith(MaxLengthCm, FloorY)

\* the scene after mounting: new ClothSimulation({ floorY: FLOOR_SURFACE_Y })
SceneInit == \E m \in SceneMaxLengths : InitWith(m, FloorSurfaceY)

RollNext ==
    \/ \E elapsed \in ElapsedMs : Animate(elapsed)
    \/ \E clientY \in ClientYs : OnPointerDown(clientY)
    \/ \E clientY \in ClientYs : OnPointerMove(clientY)
    \/ OnPointerUp
    \/ \E lengthCm \in SetLengths : SetUnrolledLength(lengthCm)

RollSpec == Init /\ [][RollNext]_vars

ClothNext ==
    \/ \E in \in UpdateInputs : Update(in[1], in[2], in[3])
    \/ \E anchor \in SpawnAnchors : SpawnRow(anchor)
    \/ DespawnRow
    \/ Reset

ClothSpec == Init /\ [][ClothNext]_vars

SceneNext ==
    \/ \E spinRate \in SceneSpinRates, rawDelta \in SceneRawDeltas :
           SceneFrameBegin(spinRate, rawDelta)
    \/ SceneSpawnStep
    \/ SceneDespawnStep
    \/ SceneResetStep
    \/ SceneUpdateStep
    \/ \E externalLength \in ExternalLengths :
           SceneSetExternalLength(externalLength)

SceneSpec == SceneInit /\ [][SceneNext]_vars

\* a gentle drag and the coasting that follows it: pointer coordinates 0 and
\* 0.12 px (U)
CoastClientYs == {0, 12000}

CoastNext ==
    \/ \E elapsed \in ElapsedMs : Animate(elapsed)
    \/ \E clientY \in CoastClientYs : OnPointerDown(clientY)
    \/ \E clientY \in CoastClientYs : OnPointerMove(clientY)
    \/ OnPointerUp

CoastSpec == Init /\ [][CoastNext]_vars

\* the state of Init, with the arguments of one helper call
CallInit(a) == StateInit(MaxLengthCm, FloorY, <<>>, <<>>, a)

\* a helper call returns: only result and op change
Returns(name, value) ==
    /\ result = <<>>
    /\ result' = value
    /\ op' = name
    /\ UNCHANGED <<rollVars, clothVars, sceneVars, args, printVars>>

\* ---- update on a strip with a degenerate particle ----

\* a chain of n particles at rest, hanging from (x, 0, 0) one segment apart
RECURSIVE HangingChain(_, _)
HangingChain(n, x) ==
    IF n = 0 THEN <<>>
    ELSE Append(HangingChain(n - 1, x),
                makeParticle(Vec3(x, -((n - 1) * SegmentLength), 0)))

HangingStrip(n) ==
    Cloth(HangingChain(n, -(PaperWidth \div 2)),
          HangingChain(n, PaperWidth \div 2))

\* which coordinates of the current position are not finite
Degeneracies == {"x", "y", "xyz"}

\* p with a current position that is not finite and its previous position
Degenerate(p, which) ==
    CASE which = "x"   -> [p EXCEPT !.x = NaN]
      [] which = "y"   -> [p EXCEPT !.y = NaN]
      [] which = "xyz" -> NaNPos(p)

\* strips of 2 .. maxActiveRows rows with one degenerate particle below the
\* pinned row
DegenerateStrips ==
    UNION { UNION { { Cloth([HangingStrip(n).left EXCEPT
                                ![i] = Degenerate(@, which)],
                            HangingStrip(n).right),
                      Cloth(HangingStrip(n).left,
                            [HangingStrip(n).right EXCEPT
                                ![i] = Degenerate(@, which)]) } :
                    i \in 2..n, which \in Degeneracies } :
            n \in 2..MaxActiveRows }

DegenerateInit ==
    \E c \in DegenerateStrips :
        StateInit(MaxLengthCm, FloorY, c.left, c.right, <<>>)

DegenerateNext ==
    \/ \E in \in UpdateInputs : Update(in[1], in[2], in[3])
    \/ \E anchor \in SpawnAnchors : SpawnRow(anchor)

DegenerateSpec == DegenerateInit /\ [][DegenerateNext]_vars

\* ---- applySpinPull on its own ----

\* dt of update (ms) and spinRate (1/10 rad/s) handed to applySpinPull
SpinPullDts == {4, 8, 16, 25, 50}
SpinPullRates == {-100, -20, 0, 4, 5, 20, 100}

\* <<strip at rest, dt, spinRate>>
SpinPullArgs ==
    { <<HangingStrip(n), dtMs, spinRate>> :
          n \in 1..MaxActiveRows, dtMs \in SpinPullDts,
          spinRate \in SpinPullRates }

SpinPullInit == \E a \in SpinPullArgs : CallInit(a)

\* one applySpinPull step
ApplySpinPull ==
    Returns("applySpinPull", <<applySpinPull(args[1], args[2], args[3])>>)

SpinPullSpec == SpinPullInit /\ [][ApplySpinPull]_vars

\* ---- one constraint pass on its own ----

\* rows of the strips a single pass is run on
PassRows == 4

\* heights of the particles (CU): rows may coincide, be one segment apart
\* or be stretched
PassYs == {0, -1000, -3000}

\* the chain of particles at rest at (x, ys[i], 0)
RECURSIVE ChainAt(_, _, _)
ChainAt(x, ys, n) ==
    IF n = 0 THEN <<>>
    ELSE Append(ChainAt(x, ys, n - 1), makeParticle(Vec3(x, ys[n], 0)))

\* strips whose right chain is at paper width from the left one, or on it
PassStrips ==
    { Cloth(ChainAt(-(PaperWidth \div 2), ys, PassRows),
            ChainAt(xr, ys, PassRows)) :
          ys \in [1..PassRows -> PassYs],
          xr \in {PaperWidth \div 2, -(PaperWidth \div 2)} }

\* <<pass, strip>>
PassArgs == {"solveStructural", "solveRungs", "solveBending"} \X PassStrips

PassInit == \E a \in PassArgs : CallInit(a)

SolveStructural ==
    /\ args[1] = "solveStructural"
    /\ Returns("solveStructural", <<solveStructural(args[2])>>)

SolveRungs ==
    /\ args[1] = "solveRungs"
    /\ Returns("solveRungs", <<solveRungs(args[2])>>)

SolveBending ==
    /\ args[1] = "solveBending"
    /\ Returns("solveBending", <<solveBending(args[2])>>)

PassNext == SolveStructural \/ SolveRungs \/ SolveBending

PassSpec == PassInit /\ [][PassNext]_vars

\* ---- solveDistanceConstraint on its own ----

\* positions of a (CU) and offsets of b from a: one grid step, one segment,
\* the paper width, stretched, slack and oblique pairs
PairOrigins == {Vec3(-2000, 0, 0), Vec3(1500, -3500, 250)}
PairOffsets ==
    { Vec3(1, 0, 0), Vec3(0, -1000, 0), Vec3(4000, 0, 0), Vec3(0, -3000, 0),
      Vec3(3000, -4000, 0), Vec3(2000, -1000, 2000), Vec3(-600, -300, 200),
      Vec3(1000, -2000, 500) }
\* what the particles moved by in the step before (CU)
PairVelocities == {Vec3(0, 0, 0), Vec3(10, -25, 5)}
\* segmentLength, 2 * segmentLength and paperWidth
PairRestLengths == {SegmentLength, 2 * SegmentLength, PaperWidth}

\* the particle at pos that came from pos - v
MovingParticle(pos, v) ==
    [x |-> pos.x, y |-> pos.y, z |-> pos.z,
     px |-> pos.x - v.x, py |-> pos.y - v.y, pz |-> pos.z - v.z]

\* <<a, b, restLength, pinA>>
PairArgs ==
    { <<MovingParticle(o, v),
        MovingParticle(Vec3(o.x + d.x, o.y + d.y, o.z + d.z), v),
        restLength, pinA>> :
          o \in PairOrigins, d \in PairOffsets, v \in PairVelocities,
          restLength \in PairRestLengths, pinA \in BOOLEAN }

PairInit == \E a \in PairArgs : CallInit(a)

SolveDistanceConstraint ==
    Returns("solveDistanceConstraint",
            solveDistanceConstraint(args[1], args[2], args[3], args[4]))

PairSpec == PairInit /\ [][SolveDistanceConstraint]_vars

\* ---- two rolls that differ in config.friction only ----

\* the body of animate (lines 99-125) on a state record st of a hook whose
\* config has friction fNum / fDen, with time step dt (ms)
animateBody(st, fNum, fDen, dt) ==
    IF ~st.isDragging /\ Abs(st.angularVelocity) > VelocityEpsilon
    THEN LET v1          == RDiv(st.angularVelocity * fNum, fDen)
             radius      == calculateRadius(st.unrolledLength, maxLengthCm)
             lengthDelta == RDiv(RDiv(v1 * radius, RU) * dt, 1000)
             len1        == ClampLength(st.unrolledLength + lengthDelta,
                                        maxLengthCm)
             v2          == IF Abs(v1) < VelocityEpsilon THEN 0 ELSE v1
         IN  [st EXCEPT
                !.angularVelocity =
                    IF len1 <= 0 \/ len1 >= maxLengthCm THEN 0 ELSE v2,
                !.totalRotation = @ + RDiv(v1 * dt, 1000),
                !.unrolledLength = len1]
    ELSE st

\* config.friction of the two hooks (as hundredths), f1 < f2, both in (0,1)
Frictions == {50, 80, 92, 99}
\* angularVelocity at the release (U), unrolledLength then (U), frame dt (ms)
ReleaseVelocities == {5000, 200000, -200000}
ReleaseLengths == {50000, 100000}
FrameDts == {16, 50}

\* <<f1, f2, angularVelocity, unrolledLength, dt>>
FrictionArgs ==
    { a \in Frictions \X Frictions \X ReleaseVelocities \X ReleaseLengths
              \X FrameDts : a[1] < a[2] }

FrictionInit == \E a \in FrictionArgs : CallInit(a)

\* both hooks are released with the same state
ReleaseBoth ==
    /\ result = <<>>
    /\ result' = <<Snapshot(args[3], 0, args[4], FALSE),
                   Snapshot(args[3], 0, args[4], FALSE)>>
    /\ op' = "release"
    /\ UNCHANGED <<rollVars, clothVars, sceneVars, args, printVars>>

\* one animation frame of both hooks
AnimateBoth ==
    /\ result # <<>>
    /\ result' = <<animateBody(result[1], args[1], 100, args[5]),
                   animateBody(result[2], args[2], 100, args[5])>>
    /\ op' = "animate"
    /\ UNCHANGED <<rollVars, clothVars, sceneVars, args, printVars>>

FrictionNext == ReleaseBoth \/ AnimateBoth

FrictionSpec == FrictionInit /\ [][FrictionNext]_vars

----------------------------------------------------------------------------
(* printToiletPaper (src/src/app/actions.ts): the feed commands *)

\* lengths in cm are on a grid of 0.01 cm
LU == 100
\* DOTS_PER_CM
DotsPerCm == 142
\* the largest n of ESC J n, and the bytes ESC and J
MaxFeed == 255
EscByte == 27
JByte == 74

\* Math.round(a / b) for b > 0: halves go towards +Infinity
MathRound(a, b) == (2 * a + b) \div (2 * b)

\* a number stored into a Buffer
Byte(v) == v % 256

\* Buffer.from([0x1b, 0x4a, n])
EscJ(n) == <<Byte(EscByte), Byte(JByte), Byte(n)>>

\* the bytes pushed by the loop of buildFeedCommands (lines 29-31):
\* fullSteps times ESC J 255
FullSteps(fullSteps) ==
    [k \in 1..(3 * fullSteps) |-> EscJ(MaxFeed)[((k - 1) % 3) + 1]]

\* buildFeedCommands pushing the remainder command whatever the remainder
buildFeedCommandsAlways(lengthCm) ==
    LET totalDots == MathRound(lengthCm * DotsPerCm, LU)
        fullSteps == totalDots \div MaxFeed
        remainder == totalDots % MaxFeed
    IN  FullSteps(fullSteps) \o EscJ(remainder)

\* buildFeedCommands(lengthCm): the bytes of the returned Buffer
buildFeedCommands(lengthCm) ==
    LET totalDots == MathRound(lengthCm * DotsPerCm, LU)
        fullSteps == totalDots \div MaxFeed
        remainder == totalDots % MaxFeed
    IN  FullSteps(fullSteps)
          \o (IF remainder > 0 THEN EscJ(remainder) ELSE <<>>)

\* ---- buildFeedCommands on its own ----

\* the lengths of the run are the multiples of FeedStep up to FeedCount
\* steps, with lengths that give a remainder of 0, and the longest sheet
FeedCount == 120
FeedStep == 7

\* lengthCm accepted by printToiletPaper (LU): 0 < lengthCm <= 500
FeedLengths ==
    { k * FeedStep : k \in 1..FeedCount } \cup {1, 359, 539, 50000}

FeedInit == \E lengthCm \in FeedLengths : CallInit(<<lengthCm>>)

BuildFeedCommands == Returns("buildFeedCommands", buildFeedCommands(args[1]))

FeedSpec == FeedInit /\ [][BuildFeedCommands]_vars

----------------------------------------------------------------------------
(* printToiletPaper and sendToPrinter (src/src/app/actions.ts) *)

\* ESC_INIT and CUT_PAPER
EscInit == <<Byte(27), Byte(64)>>
CutPaper == <<Byte(29), Byte(86), Byte(66), Byte(0)>>

\* the limits of printToiletPaper: 500 cm (on the LU grid) and 100 sheets
MaxSheetLength == 50000
MaxSheets == 100

\* a string is a sequence of characters
DigitValue ==
    [c \in {"0", "1", "2", "3", "4", "5", "6", "7", "8", "9"} |->
        CASE c = "0" -> 0 [] c = "1" -> 1 [] c = "2" -> 2 [] c = "3" -> 3
          [] c = "4" -> 4 [] c = "5" -> 5 [] c = "6" -> 6 [] c = "7" -> 7
          [] c = "8" -> 8 [] c = "9" -> 9]

IsDigit(str, i) == i <= Len(str) /\ str[i] \in DOMAIN DigitValue

\* the digits of str from index i on, read into acc
RECURSIVE ParseDigits(_, _, _)
ParseDigits(str, i, acc) ==
    IF ~IsDigit(str, i) THEN acc
    ELSE ParseDigits(str, i + 1, acc * 10 + DigitValue[str[i]])

\* the index of the first character of str from i on that is not a space
RECURSIVE SkipSpace(_, _)
SkipSpace(str, i) ==
    IF i <= Len(str) /\ str[i] = " " THEN SkipSpace(str, i + 1) ELSE i

\* parseInt(str, 10): leading spaces, a sign, then digits up to the first
\* other character; NaN when there is no digit
parseInt(str) ==
    LET i    == SkipSpace(str, 1)
        sign == IF i <= Len(str) /\ str[i] = "-" THEN -1 ELSE 1
        j    == IF i <= Len(str) /\ str[i] \in {"-", "+"} THEN i + 1 ELSE i
    IN  IF IsDigit(str, j) THEN sign * ParseDigits(str, j, 0) ELSE NaN

\* the payload of amount sheets (lines 122-131)
RECURSIVE Sheets(_, _, _)
Sheets(i, amount, feedCommands) ==
    IF i >= amount THEN <<>>
    ELSE EscInit \o feedCommands \o CutPaper
           \o Sheets(i + 1, amount, feedCommands)

Payload(lengthCm, amount) == Sheets(0, amount, buildFeedCommands(lengthCm))

\* the value printToiletPaper returns; the message is kept as its kind
Reply(success, message) ==
    [kind |-> "returned", success |-> success, message |-> message]

\* the checks of printToiletPaper before it opens a socket (lines
\* 101-119): <<>> when they pass, else <<the value returned>>
Validate(lengthCm, amount, printerPort) ==
    IF lengthCm <= 0 \/ amount <= 0 THEN <<Reply(FALSE, "positive")>>
    ELSE IF lengthCm > MaxSheetLength THEN <<Reply(FALSE, "maxLength")>>
    ELSE IF amount > MaxSheets THEN <<Reply(FALSE, "maxSheets")>>
    ELSE IF ~isFinite(parseInt(printerPort)) THEN <<Reply(FALSE, "port")>>
    ELSE <<>>

\* resolve() and reject(): only the first call settles the promise
Resolve(p) == IF p = "pending" THEN "resolved" ELSE p

Reject(p) == IF p = "pending" THEN "rejected" ELSE p

\* new net.Socket() with its handlers attached and connect called
NewSocket ==
    [connected |-> FALSE, write |-> "none", data |-> <<>>,
     destroyed |-> FALSE, ended |-> FALSE, closed |-> FALSE,
     timer |-> FALSE, log |-> <<>>]

\* a callback of the socket or of the timer runs only between two tasks:
\* once the promise is settled, the awaiting printToiletPaper goes on first
BetweenTasks == socket # <<>> /\ (promise = "pending" \/ printed # <<>>)

\* what printToiletPaper is called with: <<lengthCm (LU), amount,
\* settings.printerPort>>
PrintLengths == {0, 359, MaxSheetLength + 1}
PrintAmounts == {0, 1, 2, MaxSheets + 1}
PrintPorts == {<<"9", "1", "0", "0">>, <<" ", "8", "0", "x">>, <<"l", "p">>, <<>>}

PrintArgs == PrintLengths \X PrintAmounts \X PrintPorts

PrintInit == \E a \in PrintArgs : CallInit(a)

\* printToiletPaper up to `await sendToPrinter(...)` (lines 100-133, 49-85)
PrintToiletPaper ==
    LET invalid == Validate(args[1], args[2], args[3])
    IN  /\ socket = <<>>
        /\ printed = <<>>
        /\ promise = "none"
        /\ IF invalid # <<>>
           THEN /\ printed' = invalid
                /\ UNCHANGED <<socket, promise>>
           ELSE /\ socket' = NewSocket
                /\ promise' = "pending"
                /\ UNCHANGED printed
        /\ op' = "printToiletPaper"
        /\ UNCHANGED <<rollVars, clothVars, sceneVars, callVars>>

\* the connect callback (lines 67-68): the payload is handed to write
SocketConnect ==
    /\ BetweenTasks
    /\ ~socket.connected /\ ~socket.destroyed /\ ~socket.closed
    /\ socket' = [socket EXCEPT !.connected = TRUE, !.write = "pending",
                                !.data = Payload(args[1], args[2]),
                                !.log = Append(@, "connect")]
    /\ op' = "connect"
    /\ UNCHANGED <<promise, printed, rollVars, clothVars, sceneVars, callVars>>

\* the callback of write (lines 68-80); a write on a socket that is
\* destroyed or closed fails
SocketWritten(err) ==
    /\ BetweenTasks
    /\ socket.write = "pending"
    /\ (socket.destroyed \/ socket.closed) => err
    /\ IF err
       THEN /\ socket' = [socket EXCEPT !.write = "failed", !.destroyed = TRUE,
                                        !.log = Append(@, "writeError")]
            /\ promise' = Reject(promise)
       ELSE /\ socket' = [socket EXCEPT !.write = "done", !.timer = TRUE,
                                        !.log = Append(@, "written")]
            /\ UNCHANGED promise
    /\ op' = "written"
    /\ UNCHANGED <<printed, rollVars, clothVars, sceneVars, callVars>>

\* the callback of setTimeout(..., 500) (lines 76-79)
EndTimer ==
    /\ BetweenTasks
    /\ socket.timer
    /\ socket' = [socket EXCEPT !.timer = FALSE, !.ended = TRUE]
    /\ promise' = Resolve(promise)
    /\ op' = "endTimer"
    /\ UNCHANGED <<printed, rollVars, clothVars, sceneVars, callVars>>

\* the "timeout" handler (lines 55-58)
SocketTimeout ==
    /\ BetweenTasks
    /\ ~socket.destroyed /\ ~socket.closed
    /\ socket' = [socket EXCEPT !.destroyed = TRUE,
                                !.log = Append(@, "timeout")]
    /\ promise' = Reject(promise)
    /\ op' = "timeout"
    /\ UNCHANGED <<printed, rollVars, clothVars, sceneVars, callVars>>

\* the "error" handler (lines 60-65)
SocketError ==
    /\ BetweenTasks
    /\ ~socket.destroyed /\ ~socket.closed
    /\ socket' = [socket EXCEPT !.destroyed = TRUE,
                                !.log = Append(@, "error")]
    /\ promise' = Reject(promise)
    /\ op' = "error"
    /\ UNCHANGED <<printed, rollVars, clothVars, sceneVars, callVars>>

\* the "close" handler (lines 83-85); the socket closes once, after it
\* was destroyed or ended here, or when the printer ends the connection
SocketClose ==
    /\ BetweenTasks
    /\ ~socket.closed
    /\ socket.destroyed \/ socket.ended \/ socket.connected
    /\ socket' = [socket EXCEPT !.closed = TRUE, !.log = Append(@, "close")]
    /\ promise' = Resolve(promise)
    /\ op' = "close"
    /\ UNCHANGED <<printed, rollVars, clothVars, sceneVars, callVars>>

\* printToiletPaper after the await (lines 135-143)
PrintReturn ==
    /\ promise \in {"resolved", "rejected"}
    /\ printed = <<>>
    /\ printed' = <<IF promise = "resolved" THEN Reply(TRUE, "printed")
                                          ELSE Reply(FALSE, "error")>>
    /\ op' = "return"
    /\ UNCHANGED <<socket, promise, rollVars, clothVars, sceneVars, callVars>>

PrintNext ==
    \/ PrintToiletPaper
    \/ SocketConnect
    \/ \E err \in BOOLEAN : SocketWritten(err)
    \/ EndTimer
    \/ SocketTimeout
    \/ SocketError
    \/ SocketClose
    \/ PrintReturn

PrintSpec == PrintInit /\ [][PrintNext]_vars

\* ---- calculateRadius on its own ----

\* the unrolled lengths tried are the multiples of maxLengthCm / RadiusSteps
RadiusSteps == 8

\* configs: the components' config, a thinner roll and a nearly empty one
RadiusConfigs ==
    { RollConfig(maxLengthCm),
      [maxLengthCm |-> 5 * U, coreRadiusCm |-> 100, outerRadiusCm |-> 300],
      [maxLengthCm |-> U, coreRadiusCm |-> 550, outerRadiusCm |-> 560] }

RadiusLengths(cfg) ==
    { RDiv(i * cfg.maxLengthCm, RadiusSteps) : i \in 0..RadiusSteps }

\* <<config, shorter length, longer length>>
RadiusArgs ==
    UNION { { <<cfg, l1, l2>> : l1, l2 \in RadiusLengths(cfg) } :
            cfg \in RadiusConfigs }

RadiusInit == \E a \in { x \in RadiusArgs : x[2] <= x[3] } : CallInit(a)

\* calculateRadius at the two lengths
CalculateRadius ==
    Returns("calculateRadius", <<calculateRadiusOf(args[2], args[1]),
                                 calculateRadiusOf(args[3], args[1])>>)

RadiusSpec == RadiusInit /\ [][CalculateRadius]_vars

----------------------------------------------------------------------------
(* Claims *)

\* C1: under any interleaving of pointer events, animation frames and
\* setUnrolledLength calls, 0 <= unrolledLength <= maxLengthCm.
C1_LengthInRange == 0 <= unrolledLength /\ unrolledLength <= maxLengthCm

\* a drag sample far larger than the whole roll has just been clamped
C1_Witness ==
    /\ op = "onPointerMove"
    /\ isDragging
    /\ unrolledLength = maxLengthCm
    /\ angularVelocity > 10 * U

\* C2: after update returns on a non-empty strip, both particles of row 0
\* sit exactly on the anchors handed to the call.
C2_RowZeroPinned ==
    (op = "update" /\ rowCount >= 1) =>
        (Pos(left[1]) = exitLeft /\ Pos(right[1]) = exitRight)

C4_ChainsAligned == Len(left) = Len(right) /\ rowCount <= MaxActiveRows

\* a full strip that has been stepped, shortened and refilled
C4_Witness ==
    /\ op = "spawnRow"
    /\ rowCount = MaxActiveRows
    /\ updates = MaxUpdates

\* C5: a coasting frame that starts above the velocity epsilon strictly
\* lowers |angularVelocity| and leaves it either exactly 0 or still above
\* the epsilon, so that the decay goes on until the roll rests.
C5_CoastDecreasesToRest ==
    [][(op' = "animate" /\ ~isDragging
            /\ Abs(angularVelocity) > VelocityEpsilon) =>
       (/\ Abs(angularVelocity') < Abs(angularVelocity)
        /\ (angularVelocity' = 0 \/ Abs(angularVelocity') > VelocityEpsilon))]_vars

\* C6: a drag sample whose length update is clamped leaves angularVelocity 0.
C6_ClampedDragStops ==
    [][(/\ op' = "onPointerMove"
        /\ isDragging
        /\ lastPointerY # <<>>
        /\ lastPointerY' # <<>>
        /\ LET raw == DragRawLength(unrolledLength,
                                    lastPointerY'[1] - lastPointerY[1])
           IN  raw < 0 \/ raw > maxLengthCm) =>
       angularVelocity' = 0]_vars

\* C7: after an animation frame executed while not dragging, a roll at
\* either length boundary has angularVelocity 0.
C7_BoundaryStopsCoasting ==
    (op = "animate" /\ ~isDragging
        /\ (unrolledLength = 0 \/ unrolledLength = maxLengthCm)) =>
    angularVelocity = 0

\* C8: when the row management of a frame is done, rowCount is
\* min(max(1, floor(length / segment) + 1), maxActiveRows) for a length at
\* or above the threshold and 0 for a length below it.
C8_RowCountFollowsLength ==
    pc = "step" =>
        rowCount = IF sceneLength >= SceneThreshold
                   THEN Min(TargetRows(sceneLength), MaxActiveRows)
                   ELSE 0

\* C9: the time step update integrates has magnitude at most 1/20 s.
C9_DtClamped == op = "update" => Abs(stepDt) <= MaxDtMs

\* C10: spawnRow on a strip of maxActiveRows rows changes nothing.
C10_SpawnAtCapIsNoOp ==
    [][(op' = "spawnRow" /\ rowCount = MaxActiveRows) =>
       (left' = left /\ right' = right)]_vars

\* a spawnRow was ignored: row 0 still sits where the last update pinned it,
\* on anchors no spawnRow is called with
C10_Witness ==
    /\ op = "spawnRow"
    /\ rowCount = MaxActiveRows
    /\ left[1] = makeParticle(AnchorLow[1])
    /\ right[1] = makeParticle(AnchorLow[2])

\* C11: despawnRow changes nothing on a strip of at most one row and
\* otherwise removes exactly row 0, every other row moving up one index
\* unchanged; so it never empties a non-empty strip.
C11_DespawnDropsRowZero ==
    [][op' = "despawnRow" =>
       IF rowCount <= 1
       THEN left' = left /\ right' = right
       ELSE /\ Len(left') = rowCount - 1
            /\ Len(right') = rowCount - 1
            /\ \A i \in 1..(rowCount - 1) :
                   left'[i] = left[i + 1] /\ right'[i] = right[i + 1]]_vars

\* despawnRow has removed row 0 of a stepped strip whose rows differ: the
\* row now at the head is one that update has moved off the spawn anchors
C11_Witness ==
    /\ op = "despawnRow"
    /\ rowCount = MaxActiveRows - 1
    /\ Pos(left[1]) # AnchorStd[1]
    /\ Pos(left[1]) # Pos(left[rowCount])

\* C12: reset leaves both chains empty from any state, and a reset that
\* follows a reset changes nothing.
C12_ResetEmptiesAndIsIdempotent ==
    [][op' = "reset" =>
       (/\ left' = <<>>
        /\ right' = <<>>
        /\ op = "reset" => (left' = left /\ right' = right))]_vars

\* reset has cleared a strip that update has stepped
C12_Witness ==
    /\ op = "reset"
    /\ rowCount = 0
    /\ Len(right) = 0
    /\ stepDt # 0
    /\ updates = MaxUpdates

\* C13: setUnrolledLength(v) sets unrolledLength to v clamped into
\* [0, maxLengthCm] and angularVelocity to 0, leaves totalRotation and
\* isDragging unchanged and hands the resulting state to onUpdate.
C13_SetLengthOverrides ==
    [][op' = "setUnrolledLength" =>
       (/\ lengthArg' # <<>>
        /\ unrolledLength' = Max(0, Min(maxLengthCm, lengthArg'[1]))
        /\ angularVelocity' = 0
        /\ totalRotation' = totalRotation
        /\ isDragging' = isDragging
        /\ notified' = <<[angularVelocity |-> 0,
                          totalRotation   |-> totalRotation,
                          unrolledLength  |-> unrolledLength',
                          isDragging      |-> isDragging]>>)]_vars

\* a length above the roll has been set during a drag that had turned the
\* roll
C13_Witness ==
    /\ op = "setUnrolledLength"
    /\ isDragging
    /\ totalRotation # 0
    /\ lengthArg = <<300000>>
    /\ unrolledLength = maxLengthCm
    /\ angularVelocity = 0

C16_DegenerateRecovered ==
    [][LET Recoverable(p) ==
               /\ ~FinitePos(p)
               /\ isFinite(p.px) /\ isFinite(p.py) /\ isFinite(p.pz)
       IN  (/\ op' = "update"
            /\ FinitePos(exitLeft') /\ FinitePos(exitRight')
            /\ \E i \in 2..rowCount :
                   Recoverable(left[i]) \/ Recoverable(right[i])) =>
           (\A i \in 1..Len(left') :
                FinitePos(left'[i]) /\ FinitePos(right'[i]))]_vars

\* the first update of a full strip that held a degenerate particle has
\* returned, and the strip is finite
C16_Witness ==
    /\ op = "update"
    /\ updates = 1
    /\ rowCount = MaxActiveRows
    /\ \A i \in 1..rowCount : FinitePos(left[i]) /\ FinitePos(right[i])

\* C17: the spawn loop and the despawn loop of a frame finish: whenever the
\* test of either loop holds its body changes the strip, so the loop never
\* runs its deterministic body on the same state again; this also for a
\* target row count above maxActiveRows.
C17_RowLoopsTerminate ==
    /\ (/\ pc = "spawn"
        /\ rowCount < frame.targetRows
        /\ sceneLength > SceneThreshold) =>
           spawnRow(Cloth(left, right), frame.exitLeft, frame.exitRight)
               # Cloth(left, right)
    /\ (/\ pc = "despawn"
        /\ rowCount > frame.targetRows
        /\ rowCount > 1) =>
           despawnRow(Cloth(left, right)) # Cloth(left, right)

\* C18: when |spinRate| is at or above the threshold and the strip has
\* n >= 3 rows, one applySpinPull step leaves row 0 where it is and lowers
\* the y of row i (1 <= i <= n-1) on both chains by
\* 120 * |spinRate| * t_i * dt^2 with t_i = (n-1-i) / (n-2): 1 at row 1,
\* linear in i, 0 at the tip row n-1.
C18_SpinPullProfile ==
    (/\ op = "applySpinPull"
     /\ Abs(args[3]) >= SpinThreshold
     /\ Len(args[1].left) >= 3) =>
        LET before == args[1]
            after  == result[1]
            n      == Len(before.left)
            \* 0-based row k
            drop(k) == RDiv(PullStrength * Abs(args[3]) * (n - 1 - k)
                                * args[2] * args[2],
                            SpinU * (n - 2) * 1000 * SubSteps * SubSteps)
        IN  /\ after.left[1] = before.left[1]
            /\ after.right[1] = before.right[1]
            /\ \A k \in 1..(n - 1) :
                   /\ after.left[k + 1] =
                          [before.left[k + 1] EXCEPT !.y = @ - drop(k)]
                   /\ after.right[k + 1] =
                          [before.right[k + 1] EXCEPT !.y = @ - drop(k)]

\* C19: in the structural, the rung and the bending pass, a pair of
\* endpoints closer than the epsilon has only its own correction skipped:
\* the pass leaves the strip as the loop over all its pairs does that
\* passes over each such pair and corrects every other pair.
C19_OnlyOwnCorrectionSkipped ==
    op \in {"solveStructural", "solveRungs", "solveBending"} =>
        LET Close(a, b) == Dist(a, b) < DistEpsilon
            RECURSIVE Distances(_, _)
            Distances(chain, i) ==
                IF i > Len(chain) - 1 THEN chain
                ELSE IF Close(chain[i], chain[i + 1])
                     THEN Distances(chain, i + 1)
                     ELSE LET r == solveDistanceConstraint(
                                       chain[i], chain[i + 1],
                                       SegmentLength, i = 1)
                          IN  Distances([chain EXCEPT ![i] = r[1],
                                                      ![i + 1] = r[2]], i + 1)
            RECURSIVE Rungs(_, _)
            Rungs(c, i) ==
                IF i > Len(c.left) THEN c
                ELSE IF Close(c.left[i], c.right[i]) THEN Rungs(c, i + 1)
                     ELSE LET r == solveDistanceConstraint(
                                       c.left[i], c.right[i],
                                       PaperWidth, i = 1)
                          IN  Rungs(Cloth([c.left EXCEPT ![i] = r[1]],
                                          [c.right EXCEPT ![i] = r[2]]),
                                    i + 1)
            RECURSIVE Bending(_, _)
            Bending(chain, i) ==
                IF i > Len(chain) - 2 THEN chain
                ELSE IF Close(chain[i], chain[i + 2])
                     THEN Bending(chain, i + 1)
                     ELSE Bending(BendPair(chain, i, SegmentLength * 2),
                                  i + 1)
            c == args[2]
        IN  result[1] =
                CASE op = "solveStructural" ->
                         Cloth(Distances(c.left, 1), Distances(c.right, 1))
                  [] op = "solveRungs" -> Rungs(c, 1)
                  [] op = "solveBending" ->
                         Cloth(Bending(c.left, 1), Bending(c.right, 1))

\* C20: one solveDistanceConstraint(a, b, L, pinA) on a pair at distance
\* d >= epsilon leaves the pair at distance L (up to the rounding of the
\* grid) on the line it was on; with pinA false a and b move by opposite
\* amounts, so their midpoint stays; with pinA true a stays and b takes the
\* whole correction; the previous positions are not modified.
C20_PairProjected ==
    (op = "solveDistanceConstraint" /\ Dist(args[1], args[2]) >= DistEpsilon) =>
        LET a  == args[1]
            b  == args[2]
            a1 == result[1]
            b1 == result[2]
            d  == Vec3(b.x - a.x, b.y - a.y, b.z - a.z)
            d1 == Vec3(b1.x - a1.x, b1.y - a1.y, b1.z - a1.z)
            \* rounding of the three coordinates of each end
            tol == 3
            Collinear(u, v, w, t) == Abs(u * t - v * w) <= tol * (Abs(w) + Abs(t))
        IN  /\ Prev(a1) = Prev(a) /\ Prev(b1) = Prev(b)
            /\ Abs(Dist(a1, b1) - args[3]) <= tol
            /\ Collinear(d1.x, d1.y, d.x, d.y)
            /\ Collinear(d1.y, d1.z, d.y, d.z)
            /\ Collinear(d1.x, d1.z, d.x, d.z)
            /\ d1.x * d.x + d1.y * d.y + d1.z * d.z > 0
            /\ IF args[4]
               THEN a1 = a
               ELSE /\ a1.x + b1.x = a.x + b.x
                    /\ a1.y + b1.y = a.y + b.y
                    /\ a1.z + b1.z = a.z + b.z
                    /\ a1.x - a.x = b.x - b1.x
                    /\ a1.y - a.y = b.y - b1.y
                    /\ a1.z - a.z = b.z - b1.z

\* a pinned pair that was stretched along an oblique line has been
\* projected: a is where it was and b is at the rest length from it
C20_Witness ==
    /\ op = "solveDistanceConstraint"
    /\ args[4]
    /\ Dist(args[1], args[2]) > args[3]
    /\ args[2].x # args[1].x /\ args[2].y # args[1].y
    /\ result[1] = args[1]
    /\ result[2] # args[2]
    /\ Abs(Dist(result[1], result[2]) - args[3]) <= 1

C22_LeftUZeroRightUOne ==
    LET positions == getPositions(Cloth(left, right))
        uvs       == getUVs(Cloth(left, right))
    IN  \A i \in 0..(rowCount - 1) :
            /\ VertexPos(positions, 2 * i) = Pos(left[i + 1])
            /\ VertexPos(positions, 2 * i + 1) = Pos(right[i + 1])
            /\ VertexU(uvs, 2 * i) = 0
            /\ VertexU(uvs, 2 * i + 1) = 1 * CU

\* C23: a row that exists before and after a spawnRow or a despawnRow has
\* the same v in getUVs before and after the call (a spawned row moves the
\* former row i to index i + 1, a despawned row moves row i + 1 to index i).
C23_TextureContinuity ==
    [][op' \in {"spawnRow", "despawnRow"} =>
       LET before == getUVs(Cloth(left, right))
           after  == getUVs(Cloth(left', right'))
           \* the index the former row i has after the call
           shift  == Len(left') - Len(left)
       IN  \A i \in 0..(rowCount - 1) :
               (i + shift >= 0) =>
                   /\ VertexV(after, 2 * (i + shift)) = VertexV(before, 2 * i)
                   /\ VertexV(after, 2 * (i + shift) + 1)
                          = VertexV(before, 2 * i + 1)]_vars

\* C24: with n = rowCount, getPositions returns 6n floats (per row the left
\* x y z, then the right x y z), getUVs returns 4n floats, and getIndices
\* returns nothing when n < 2 and otherwise 6(n-1) indices, the triangles
\* (2i, 2i+1, 2i+2) and (2i+1, 2i+3, 2i+2) of consecutive rows; every index
\* is below 2n.
C24_BufferShapes ==
    LET n         == rowCount
        positions == getPositions(Cloth(left, right))
        uvs       == getUVs(Cloth(left, right))
        indices   == getIndices(Cloth(left, right))
    IN  /\ Len(positions) = 6 * n
        /\ \A i \in 0..(n - 1) :
               SubSeq(positions, 6 * i + 1, 6 * i + 6)
                 = <<left[i + 1].x, left[i + 1].y, left[i + 1].z,
                     right[i + 1].x, right[i + 1].y, right[i + 1].z>>
        /\ Len(uvs) = 4 * n
        /\ Len(indices) = IF n < 2 THEN 0 ELSE 6 * (n - 1)
        /\ \A i \in 0..(n - 2) :
               SubSeq(indices, 6 * i + 1, 6 * i + 6)
                 = <<2 * i, 2 * i + 1, 2 * i + 2,
                     2 * i + 1, 2 * i + 3, 2 * i + 2>>
        /\ \A k \in 1..Len(indices) : indices[k] >= 0 /\ indices[k] < 2 * n

\* a full strip whose rows update has moved apart, with its triangles
C24_Witness ==
    /\ rowCount = MaxActiveRows
    /\ updates >= 1
    /\ Pos(left[rowCount]) # Pos(left[1])
    /\ Len(getIndices(Cloth(left, right))) = 6 * (MaxActiveRows - 1)
    /\ Len(getPositions(Cloth(left, right))) = 6 * MaxActiveRows

\* C25: in every state of the scene loop in which the renderer copies the
\* buffers (the strip is visible), they fit the pre-allocated geometry:
\* positions within 3 * MAX_VERTS floats, uvs within 2 * MAX_VERTS floats
\* and indices within MAX_INDICES.
C25_BuffersFitGeometry ==
    Visible(Cloth(left, right)) =>
        /\ Len(getPositions(Cloth(left, right))) <= 3 * MaxVerts
        /\ Len(getUVs(Cloth(left, right))) <= 2 * MaxVerts
        /\ Len(getIndices(Cloth(left, right))) <= MaxIndices

\* a frame has ended with the strip at capacity: the buffers fill the
\* geometry exactly
C25_Witness ==
    /\ op = "frameEnd"
    /\ pc = "idle"
    /\ rowCount = MaxActiveRows
    /\ Len(getPositions(Cloth(left, right))) = 3 * MaxVerts
    /\ Len(getIndices(Cloth(left, right))) = MaxIndices

\* C26: an animation frame that runs while isDragging is true leaves
\* angularVelocity, totalRotation and unrolledLength unchanged, and an
\* onPointerMove that arrives while isDragging is false changes nothing.
C26_OnlyCoastingIntegrates ==
    [][/\ (op' = "animate" /\ isDragging) =>
              UNCHANGED <<angularVelocity, totalRotation, unrolledLength>>
       /\ (op' = "onPointerMove" /\ ~isDragging) =>
              UNCHANGED <<angularVelocity, totalRotation, unrolledLength,
                          isDragging, lastPointerY>>]_vars

\* a frame has run during a drag whose last sample left a velocity above
\* the epsilon: the frame did not touch it
C26_Witness ==
    /\ op = "animate"
    /\ isDragging
    /\ Abs(angularVelocity) > VelocityEpsilon
    /\ unrolledLength > 0 /\ unrolledLength < maxLengthCm

\* C27: a drag sample with pixel delta p adds angularDelta = p * sensitivity
\* to totalRotation and sets unrolledLength to unrolledLength +
\* angularDelta * radius clamped into [0, maxLengthCm], the radius being
\* that of the length before the sample; when the clamp does not act, the
\* change of the length is the change of the rotation times that radius.
C27_ArcLength ==
    [][(op' = "onPointerMove" /\ isDragging /\ lastPointerY # <<>>) =>
       LET p            == lastPointerY'[1] - lastPointerY[1]
           angularDelta == totalRotation' - totalRotation
           radius       == calculateRadius(unrolledLength, maxLengthCm)
           raw          == unrolledLength + RDiv(angularDelta * radius, RU)
       IN  /\ angularDelta = RDiv(p * SensitivityNum, SensitivityDen)
           /\ unrolledLength' = Max(0, Min(maxLengthCm, raw))
           /\ (raw >= 0 /\ raw <= maxLengthCm) =>
                  unrolledLength' - unrolledLength
                    = RDiv(angularDelta * radius, RU)]_vars

\* a drag sample has moved a partly unrolled roll without reaching a
\* boundary; the roll was thinner than a full one
C27_Witness ==
    /\ op = "onPointerMove"
    /\ isDragging
    /\ moves >= 1
    /\ totalRotation # 0
    /\ unrolledLength > 0 /\ unrolledLength < maxLengthCm
    /\ unrolledLength # RDiv(totalRotation * OuterRadius, RU)

\* C28: of two rolls that differ only in friction f1 < f2 and are released
\* with the same velocity, the one with the higher friction f2 has, after
\* every frame, an |angularVelocity| no larger than the other, and it is at
\* rest whenever the other is.
C28_HigherFrictionStopsSooner ==
    (result # <<>> /\ op = "animate") =>
        /\ Abs(result[2].angularVelocity) <= Abs(result[1].angularVelocity)
        /\ (result[1].angularVelocity = 0) => (result[2].angularVelocity = 0)

\* C30: for an accepted lengthCm the bytes of buildFeedCommands are a
\* sequence of commands ESC J n with every n in 1..255 (none with n = 0)
\* whose n add up to round(lengthCm * 142).
C30_FeedCommands ==
    op = "buildFeedCommands" =>
        LET count == Len(result) \div 3
            n(i)  == result[3 * i]
            RECURSIVE SumN(_, _)
            SumN(lo, hi) ==
                IF lo > hi THEN 0
                ELSE IF lo = hi THEN n(lo)
                ELSE SumN(lo, (lo + hi) \div 2)
                       + SumN((lo + hi) \div 2 + 1, hi)
            total == SumN(1, count)
        IN  /\ Len(result) = 3 * count
            /\ \A i \in 1..count :
                   /\ result[3 * i - 2] = EscByte
                   /\ result[3 * i - 1] = JByte
                   /\ n(i) >= 1 /\ n(i) <= 255
            \* total - 1/2 <= lengthCm * 142 < total + 1/2
            /\ (2 * total - 1) * LU <= 2 * args[1] * DotsPerCm
            /\ 2 * args[1] * DotsPerCm < (2 * total + 1) * LU

\* a length whose dots are a multiple of 255: two full commands and no
\* remainder command
C30_Witness ==
    /\ op = "buildFeedCommands"
    /\ args[1] = 359
    /\ result = <<EscByte, JByte, 255, EscByte, JByte, 255>>

\* C29: printToiletPaper never throws, and it returns success only when
\* the socket connected and the write of the payload completed without
\* error before any timeout, socket error or close.
C29_SuccessMeansWritten ==
    printed # <<>> =>
        /\ printed[1].kind = "returned"
        /\ printed[1].success =>
               /\ socket # <<>>
               /\ socket.connected
               /\ \E w \in 1..Len(socket.log) :
                      /\ socket.log[w] = "written"
                      /\ \A k \in 1..(w - 1) :
                             socket.log[k] \notin {"timeout", "error", "close"}

====
